---- MODULE Spec2Model ----
(***************************************************************************)
(* Model of yuque-dl's main() (src/src/index.ts): the resumable pass that  *)
(* mirrors a knowledge base's flat table of contents into a directory      *)
(* tree.  Strings that the code inspects character by character (titles,   *)
(* paths) are sequences of one-character strings; identifiers (uuid, url,  *)
(* type) are plain strings.                                                *)
(***************************************************************************)
EXTENDS Integers, Sequences, FiniteSets, TLC

\* ------------------------------------------------------------------ bounds
\* Longest table of contents the runs are checked on.
MaxNodes == 3
\* Longest title the sanitizer is checked on.
MaxLen == 3
\* Most directories above bookPath (options.distDir and its ancestors) that
\* do not exist before the first run.
MaxMissing == 2

\* ------------------------------------------------------------------ state
VARIABLES
    book,               \* what getKnowledgeBaseInfo(url) returns: [bookId, tocList]
    bookDir,            \* the directory bookPath exists
    dirs,               \* directories main's fs.mkdir made below bookPath, by resolved path
    files,              \* article files written below bookPath, by resolved path
    outside,            \* directories and files made outside bookPath, by resolved path
    missing,            \* how many directories above bookPath do not exist yet
    summaryFile,        \* SUMMARY.md exists
    store,              \* the persisted progress: [exists, records, completedCount]
    pc,                 \* where main() stands
    i,                  \* the loop index (1-based)
    uuidMap,            \* the resolution map
    cur,                \* progressItem of the node being processed (<<>>: none)
    progressBar,        \* [initialised, curr, total, isDownloadInterrupted]
    errArticleCount,
    totalArticleCount,
    errArticleInfo,
    calls,              \* calls main() has issued in this run, in order
    sanIn,              \* the title given to the sanitizer
    sanOut              \* what the sanitizer returned for it (<<>> before the call)

disk == <<bookDir, dirs, files, outside, missing, summaryFile, store>>
run == <<pc, i, uuidMap, cur, progressBar, errArticleCount, totalArticleCount,
         errArticleInfo, calls>>
san == <<sanIn, sanOut>>
vars == <<book, disk, run, san>>

tocList == book.tocList
total == Len(tocList)

\* ------------------------------------------------------------ characters
\* dirNameReg = /[\\\/:\*\?"<>\|\n\r]/g
DirNameChars == {"\\", "/", ":", "*", "?", "\"", "<", ">", "|", "\n", "\r"}
\* The characters /\s/ matches that a title of the model can hold.
WhiteSpace == {" ", "\t", "\n", "\r"}
\* Alphabet of the titles the sanitizer is checked on.
Alphabet == DirNameChars \cup {" ", "\t", "a", "_", "."}

\* title.replace(dirNameReg, '_'): every match is replaced (flag g).
ReplaceDirNameChars(s) == [k \in 1..Len(s) |-> IF s[k] \in DirNameChars THEN "_" ELSE s[k]]

\* Index of the first match of /\s/ in s, 0 when there is none.
FirstWhiteSpace(s) ==
    IF \E k \in 1..Len(s) : s[k] \in WhiteSpace
    THEN CHOOSE k \in 1..Len(s) : s[k] \in WhiteSpace /\ \A j \in 1..(k - 1) : s[j] \notin WhiteSpace
    ELSE 0

\* s.replace(/\s/, ''): no flag g, so only the first match is removed.
RemoveFirstWhiteSpace(s) ==
    LET k == FirstWhiteSpace(s)
    IN  IF k = 0 THEN s ELSE SubSeq(s, 1, k - 1) \o SubSeq(s, k + 1, Len(s))

\* title.replace(dirNameReg, '_').replace(/\s/, '')
SanitizeMissingGlobalFlag(title) ==
    LET k == IF \E j \in 1..Len(title) : title[j] \in DirNameChars
             THEN CHOOSE j \in 1..Len(title) :
                      title[j] \in DirNameChars /\ \A m \in 1..(j - 1) : title[m] \notin DirNameChars
             ELSE 0
    IN  RemoveFirstWhiteSpace([j \in 1..Len(title) |-> IF j = k THEN "_" ELSE title[j]])

Sanitize(title) == RemoveFirstWhiteSpace(ReplaceDirNameChars(title))

\* pathTitleList.join('/')
RECURSIVE Join(_)
Join(segs) ==
    IF Len(segs) = 0 THEN <<>>
    ELSE IF Len(segs) = 1 THEN segs[1]
    ELSE segs[1] \o <<"/">> \o Join(Tail(segs))

\* `${fileName}.md`
MdFileName(fileName) == fileName \o <<".", "m", "d">>

\* ------------------------------------------------------ table of contents
\* uuid of the j-th node of the table of contents.
IdList == <<"A", "B", "C", "D", "E", "F">>
\* Title of the j-th node of the table of contents.
TitleList == << <<"I", "n", "t", "r", "o">>, <<"H", "e", "l", "l", "o">>,
                <<"a", " ", "b", "/", "c">>, <<"x", ":", " ", "y", " ", "z">> >>
TitleOf(j) == TitleList[((j - 1) % Len(TitleList)) + 1]

\* A value of item.type for which typeof item.type !== 'string'.
NotAString == "<undefined>"
\* KnowledgeBase.Toc shapes: a section, a document, an entry without url, an
\* entry without a type.
Shapes == { [type |-> "TITLE", url |-> ""], [type |-> "DOC", url |-> "u"],
            [type |-> "DOC", url |-> ""], [type |-> NotAString, url |-> ""] }

\* child_uuid: the uuid of the node's first child, '' when it has none.
ChildUuid(j, n, par) ==
    IF \E c \in 1..n : par[c] = j
    THEN IdList[CHOOSE c \in 1..n : par[c] = j /\ \A d \in 1..n : par[d] = j => c <= d]
    ELSE ""

\* The j-th entry of the table of contents (KnowledgeBase.Toc).
TocItem(j, n, shape, par) ==
    [ type        |-> shape[j].type,
      uuid        |-> IdList[j],
      parent_uuid |-> IF par[j] = 0 THEN "" ELSE IdList[par[j]],
      child_uuid  |-> ChildUuid(j, n, par),
      title       |-> TitleOf(j),
      url         |-> shape[j].url ]

\* jsonData.book.toc: the nodes of a forest in the order of their numbers.
TocList(n, shape, par) == [k \in 1..n |-> TocItem(k, n, shape, par)]

\* Forests over n nodes in which every parent is listed before its children.
Forests(n) == {par \in [1..n -> 0..n] : \A j \in 1..n : par[j] < j}
\* Forests over n nodes numbered in any order: following the parents from a
\* node ends at a root.
RECURSIVE ReachesRoot(_, _, _)
ReachesRoot(par, j, fuel) ==
    IF j = 0 THEN TRUE
    ELSE IF fuel = 0 THEN FALSE
    ELSE ReachesRoot(par, par[j], fuel - 1)
ForestsAnyOrder(n) == {par \in [1..n -> 0..n] : \A j \in 1..n : ReachesRoot(par, j, n)}

\* item.type.toLocaleLowerCase()
ToLocaleLowerCase(t) == CASE t = "TITLE" -> "title" [] t = "DOC" -> "doc" [] OTHER -> t

\* Position of the node with this uuid in the table of contents.
TocIndexOf(uuid) == CHOOSE k \in 1..total : tocList[k].uuid = uuid

\* ------------------------------------------------------------- Map (uuidMap)
\* A JS Map in insertion order: a sequence of [key, value].
MapHas(map, key) == \E k \in 1..Len(map) : map[k].key = key
MapGet(map, key) == map[CHOOSE k \in 1..Len(map) : map[k].key = key].value
MapSet(map, key, value) ==
    IF MapHas(map, key)
    THEN [k \in 1..Len(map) |-> IF map[k].key = key THEN [key |-> key, value |-> value] ELSE map[k]]
    ELSE Append(map, [key |-> key, value |-> value])
MapKeys(map) == {map[k].key : k \in 1..Len(map)}

\* ------------------------------------------------------------ resolution
\* if (typeof item.type !== 'string') continue
TypeIsString(item) == item.type # NotAString

\* itemType === 'title' || item['child_uuid'] !== ''
IsDirectoryTitleOnly(item) == ToLocaleLowerCase(item.type) = "title"
IsDirectory(item) == ToLocaleLowerCase(item.type) = "title" \/ item.child_uuid # ""

\* else if (item.url)
HasUrl(item) == item.url # ""

\* The while loop of the directory branch: the chain of toc items from the
\* farthest ancestor found through the map down to the item itself.
RECURSIVE AncestorChainThroughToc(_, _)
AncestorChainThroughToc(map, tempItem) ==
    IF \E k \in 1..total : tocList[k].uuid = tempItem.parent_uuid
    THEN Append(AncestorChainThroughToc(map, tocList[TocIndexOf(tempItem.parent_uuid)]), tempItem)
    ELSE <<tempItem>>
RECURSIVE AncestorChain(_, _)
AncestorChain(map, tempItem) ==
    IF MapHas(map, tempItem.parent_uuid)
    THEN Append(AncestorChain(map, MapGet(map, tempItem.parent_uuid).toc), tempItem)
    ELSE <<tempItem>>

\* progressItem of the directory branch.
DirProgressItem(map, item) ==
    LET chain == AncestorChain(map, item)
        pathTitleList == [k \in 1..Len(chain) |-> Sanitize(chain[k].title)]
    IN  [ path          |-> Join(pathTitleList),
          pathTitleList |-> pathTitleList,
          pathIdList    |-> [k \in 1..Len(chain) |-> chain[k].uuid],
          toc           |-> item ]

\* preItem of the leaf branch: the parent's entry, or the empty default.
EmptyPreItem == [path |-> <<>>, pathTitleList |-> <<>>, pathIdList |-> <<>>]
PreItemIgnoringParent(map, item) == EmptyPreItem
PreItem(map, item) ==
    IF MapHas(map, item.parent_uuid) THEN MapGet(map, item.parent_uuid) ELSE EmptyPreItem

\* progressItem of the leaf branch.
LeafProgressItem(map, item) ==
    LET preItem == PreItem(map, item)
        fileName == Sanitize(item.title)
        pathTitleList == Append(preItem.pathTitleList, MdFileName(fileName))
    IN  [ path          |-> Join(pathTitleList),
          pathTitleList |-> pathTitleList,
          pathIdList    |-> Append(preItem.pathIdList, item.uuid),
          toc           |-> item ]

\* ------------------------------------------------------------ file system
\* The '/'-separated components of a path string, as the file system reads
\* `${bookPath}/${path}`.
RECURSIVE SplitPath(_)
SplitPath(path) ==
    IF \A k \in 1..Len(path) : path[k] # "/" THEN <<path>>
    ELSE LET k == CHOOSE j \in 1..Len(path) : path[j] = "/" /\ \A l \in 1..(j - 1) : path[l] # "/"
         IN  <<SubSeq(path, 1, k - 1)>> \o SplitPath(SubSeq(path, k + 1, Len(path)))

\* A location relative to bookPath: `up` levels above it, then down `segs`.
\* No directory above bookPath is a symbolic link, and no title of the model
\* is the name of the book directory.
BookPathLocation == [up |-> 0, segs |-> <<>>]
\* A component that names an entry: neither empty, '.' nor '..'.
IsName(c) == c # <<>> /\ c # <<".">> /\ c # <<".", ".">>
\* The location one component leads to: '' and '.' stay, '..' goes up.
EnterComponent(loc, c) ==
    IF c = <<>> \/ c = <<".">> THEN loc
    ELSE IF c = <<".", ".">>
         THEN IF Len(loc.segs) > 0
              THEN [loc EXCEPT !.segs = SubSeq(@, 1, Len(@) - 1)]
              ELSE [loc EXCEPT !.up = @ + 1]
         ELSE [loc EXCEPT !.segs = Append(@, c)]
\* The location the components lead to from loc.
RECURSIVE ResolveComponents(_, _)
ResolveComponents(loc, comps) ==
    IF comps = <<>> THEN loc
    ELSE ResolveComponents(EnterComponent(loc, Head(comps)), Tail(comps))
\* The location `${bookPath}/${path}` names.
Resolve(path) == ResolveComponents(BookPathLocation, SplitPath(path))
\* The locations the named components of comps lead through, in the order
\* the path lists them.
RECURSIVE LocationSeq(_, _)
LocationSeq(loc, comps) ==
    IF comps = <<>> THEN <<>>
    ELSE LET next == EnterComponent(loc, Head(comps))
         IN  (IF IsName(Head(comps)) THEN <<next>> ELSE <<>>) \o LocationSeq(next, Tail(comps))
\* The directories fs.mkdir(`${bookPath}/${path}`, {recursive: true}) asks
\* for, top down: one mkdir(2) for each that does not exist yet.
MkdirSteps(path) == LocationSeq(BookPathLocation, SplitPath(path))
\* The first k of them.
LocationsOn(path, k) == {MkdirSteps(path)[j] : j \in 1..k}
\* A location as a resolved path relative to bookPath.
RECURSIVE Ups(_)
Ups(n) == IF n = 0 THEN <<>> ELSE << <<".", ".">> >> \o Ups(n - 1)
LocationName(loc) == Join(Ups(loc.up) \o loc.segs)
IsInside(loc) == loc.up = 0

\* fs.mkdir(`${bookPath}/${path}`, {recursive: true}): every directory a
\* named component of the path leads to exists afterwards; '', '.' and '..'
\* name directories that exist already.  ds: the directories below bookPath.
MkdirNothing(ds, path) == ds
MkdirRecursive(ds, path) ==
    ds \cup {LocationName(loc) :
                loc \in {l \in LocationsOn(path, Len(MkdirSteps(path))) : IsInside(l)}}
\* The same call, on what lies outside bookPath.
MkdirOutside(os, path) ==
    os \cup {LocationName(loc) :
                loc \in {l \in LocationsOn(path, Len(MkdirSteps(path))) : ~IsInside(l)}}
\* The same call when the process is killed after k of its mkdir(2) steps.
MkdirKilled(ds, path, k) ==
    ds \cup {LocationName(loc) : loc \in {l \in LocationsOn(path, k) : IsInside(l)}}
MkdirOutsideKilled(os, path, k) ==
    os \cup {LocationName(loc) : loc \in {l \in LocationsOn(path, k) : ~IsInside(l)}}
\* fs.mkdir(bookPath, {recursive: true}), line 123, on what lies outside
\* bookPath: of the n missing directories above bookPath the k topmost are
\* made (all of them when the call returns).  The nearest is '..'.
MkdirAbove(os, n, k) ==
    os \cup {LocationName([up |-> j, segs |-> <<>>]) : j \in (n - k + 1)..n}
\* fs.writeFile(`${bookPath}/${path}`, mdData), line 107: the file at the
\* resolved location.  fs: the article files below bookPath.
WriteFile(fs, path) ==
    IF IsInside(Resolve(path)) THEN fs \cup {LocationName(Resolve(path))} ELSE fs
\* The same call, on what lies outside bookPath.
WriteOutside(os, path) ==
    IF IsInside(Resolve(path)) THEN os ELSE os \cup {LocationName(Resolve(path))}

\* ------------------------------------------------------------ run state
\* A call as the run's log keeps it.
Call(op, path, uuid) == [op |-> op, path |-> path, uuid |-> uuid]

NoProgressBar ==
    [initialised |-> FALSE, curr |-> 0, total |-> 0, isDownloadInterrupted |-> FALSE,
     inFlight |-> <<>>]

\* The state of a process that has not started main() yet.
FreshRun ==
    /\ pc = "idle"
    /\ i = 0
    /\ uuidMap = <<>>
    /\ cur = <<>>
    /\ progressBar = NoProgressBar
    /\ errArticleCount = 0
    /\ totalArticleCount = 0
    /\ errArticleInfo = <<>>
    /\ calls = <<>>

EmptyDisk ==
    /\ bookDir = FALSE
    /\ dirs = {}
    /\ files = {}
    /\ outside = {}
    /\ missing \in 0..MaxMissing
    /\ summaryFile = FALSE
    /\ store = [exists |-> FALSE, records |-> <<>>, completedCount |-> 0]

\* bookId of the books the runs are checked on: 0 stands for a missing id.
BookIds == {0, 1}

\* A first invocation on an empty destination, for a book whose table of
\* contents lists every parent before its children.
Init ==
    /\ \E n \in 0..MaxNodes, bookId \in BookIds :
         \E shape \in [1..n -> Shapes], par \in Forests(n) :
            book = [bookId |-> bookId, tocList |-> TocList(n, shape, par)]
    /\ EmptyDisk
    /\ FreshRun
    /\ sanIn = <<>>
    /\ sanOut = <<>>

\* The same for a table of contents listed in any order.
InitAnyOrder ==
    /\ \E n \in 1..MaxNodes :
         \E shape \in [1..n -> Shapes], par \in ForestsAnyOrder(n) :
            book = [bookId |-> 1, tocList |-> TocList(n, shape, par)]
    /\ EmptyDisk
    /\ FreshRun
    /\ sanIn = <<>>
    /\ sanOut = <<>>

\* ------------------------------------------------------- progress store
\* ProgressBar.init(): load the records; the count of completed nodes; a run
\* is interrupted iff 0 < len(records) < total.
SuccessCount(records) == Cardinality({k \in 1..Len(records) : records[k].success})
ProgressBarInit(st, tot) ==
    [ initialised           |-> TRUE,
      curr                  |-> st.completedCount,
      total                 |-> tot,
      isDownloadInterrupted |-> Len(st.records) > 0 /\ Len(st.records) < tot,
      inFlight              |-> <<>> ]

\* ProgressBar.updateProgress(progressItem, isSuccess) on the store: a success
\* is appended and counted, a failure leaves the node unrecorded.  The append
\* is whole: a record is in the store or it is not.  main() calls it without
\* await (lines 177, 215): DirDone and FetchOk take the append as done within
\* the call, DirDoneUnawaited and FetchOkUnawaited leave it in flight
\* (progressBar.inFlight) until AppendLands.
StoreAppend(st, progressItem, isSuccess) ==
    IF isSuccess
    THEN [st EXCEPT !.records = Append(@, [entry |-> progressItem, success |-> TRUE]),
                    !.completedCount = @ + 1]
    ELSE st

\* ProgressBar.updateProgress(progressItem, isSuccess) on the bar.
BarUpdate(bar, isSuccess) == IF isSuccess THEN [bar EXCEPT !.curr = @ + 1] ELSE bar

\* progressBar.progressInfo: the entries of the loaded records.
ProgressInfo(st) == [k \in 1..Len(st.records) |-> st.records[k].entry]

\* ------------------------------------------------------------------ main
\* if (!bookId) throw ...; if (!tocList || tocList.length === 0) throw ...
IsFatalIdOnly(b) == b.bookId = 0
IsFatal(b) == b.bookId = 0 \/ Len(b.tocList) = 0

\* progressInfo.forEach(item => uuidMap.set(item.toc.uuid, item))
RECURSIVE SeedMap(_, _)
SeedMap(map, progressInfo) ==
    IF Len(progressInfo) = 0 THEN map
    ELSE SeedMap(MapSet(map, progressInfo[1].toc.uuid, progressInfo[1]), Tail(progressInfo))

\* The uuidMap the loop starts from.
InitialMapNoSeed(bar, st) == <<>>
InitialMap(bar, st) == IF bar.isDownloadInterrupted THEN SeedMap(<<>>, ProgressInfo(st)) ELSE <<>>

\* progressBar.curr === total
IsCompleteNever(bar, tot) == FALSE
IsComplete(bar, tot) == bar.curr = tot

\* main(), lines 117-123: the fatal checks, then the book directory.
MainStart ==
    /\ pc = "idle"
    /\ IF IsFatal(book)
       THEN /\ pc' = "fatal"
            /\ UNCHANGED <<disk, calls>>
       ELSE /\ pc' = "init"
            /\ bookDir' = TRUE
            /\ outside' = MkdirAbove(outside, missing, missing)
            /\ missing' = 0
            /\ calls' = Append(calls, Call("mkdir", <<>>, ""))
            /\ UNCHANGED <<dirs, files, summaryFile, store>>
    /\ UNCHANGED <<book, i, uuidMap, cur, progressBar, errArticleCount, totalArticleCount,
                   errArticleInfo, san>>

\* main(), lines 125-148: the progress bar, the early return, the seeding.
InitProgress ==
    /\ pc = "init"
    /\ LET bar == ProgressBarInit(store, total)
       IN  /\ progressBar' = bar
           /\ store' = [store EXCEPT !.exists = TRUE]
           /\ IF IsComplete(bar, total)
              THEN /\ pc' = "complete"
                   /\ calls' = Append(calls, Call("logComplete", <<>>, ""))
                   /\ UNCHANGED <<i, uuidMap>>
              ELSE /\ pc' = "loop"
                   /\ i' = 1
                   /\ uuidMap' = InitialMap(bar, store)
                   /\ UNCHANGED calls
    /\ UNCHANGED <<book, bookDir, missing, dirs, files, outside, summaryFile, cur, errArticleCount,
                   totalArticleCount, errArticleInfo, san>>

InLoop == pc = "loop" /\ i >= 1 /\ i <= total
item == tocList[i]

\* The three `continue`s and the entry that is neither a directory nor has a url.
NextIndex(k) == k + 1
Skip ==
    /\ UNCHANGED <<book, disk, uuidMap, cur, progressBar, errArticleCount, totalArticleCount,
                   errArticleInfo, calls, san, pc>>
    /\ i' = NextIndex(i)

SkipNotString ==
    /\ InLoop
    /\ ~TypeIsString(item)
    /\ Skip

\* if (uuidMap.get(item.uuid)) continue
AlreadyDoneNever(map, it) == FALSE
AlreadyDone(map, it) == MapHas(map, it.uuid)

SkipDone ==
    /\ InLoop
    /\ TypeIsString(item)
    /\ AlreadyDone(uuidMap, item)
    /\ Skip

SkipNeither ==
    /\ InLoop
    /\ TypeIsString(item)
    /\ ~AlreadyDone(uuidMap, item)
    /\ ~IsDirectory(item)
    /\ ~HasUrl(item)
    /\ Skip

\* Lines 156-175: the directory's progressItem, and fs.mkdir is called.
BeginDir ==
    /\ InLoop
    /\ TypeIsString(item)
    /\ ~AlreadyDone(uuidMap, item)
    /\ IsDirectory(item)
    /\ cur' = DirProgressItem(uuidMap, item)
    /\ calls' = Append(calls, Call("mkdir", cur'.path, item.uuid))
    /\ pc' = "mkdir"
    /\ UNCHANGED <<book, disk, i, uuidMap, progressBar, errArticleCount, totalArticleCount,
                   errArticleInfo, san>>

\* Lines 175-177: fs.mkdir has returned; uuidMap.set and updateProgress(.., true).
DirDone ==
    /\ pc = "mkdir"
    /\ dirs' = MkdirRecursive(dirs, cur.path)
    /\ outside' = MkdirOutside(outside, cur.path)
    /\ uuidMap' = MapSet(uuidMap, cur.toc.uuid, cur)
    /\ store' = StoreAppend(store, cur, TRUE)
    /\ progressBar' = BarUpdate(progressBar, TRUE)
    /\ i' = NextIndex(i)
    /\ cur' = <<>>
    /\ pc' = "loop"
    /\ UNCHANGED <<book, bookDir, missing, files, summaryFile, errArticleCount, totalArticleCount,
                   errArticleInfo, calls, san>>

\* Lines 178-207: the leaf's progressItem, and downloadArticle is called.
BeginLeaf ==
    /\ InLoop
    /\ TypeIsString(item)
    /\ ~AlreadyDone(uuidMap, item)
    /\ ~IsDirectory(item)
    /\ HasUrl(item)
    /\ totalArticleCount' = totalArticleCount + 1
    /\ cur' = LeafProgressItem(uuidMap, item)
    /\ calls' = Append(calls, Call("fetch", cur'.path, item.uuid))
    /\ pc' = "fetch"
    /\ UNCHANGED <<book, disk, i, uuidMap, progressBar, errArticleCount, errArticleInfo, san>>

\* What follows the try/catch, lines 214-215.
MapAfterFetch(map, progressItem, isSuccess) == MapSet(map, progressItem.toc.uuid, progressItem)

IndexAfterFetchAbort(k, isSuccess, tot) == IF isSuccess THEN k + 1 ELSE tot + 1
IndexAfterFetch(k, isSuccess, tot) == k + 1

\* downloadArticle returned true (it wrote saveFilePath), lines 199-215.
FetchOk ==
    /\ pc = "fetch"
    /\ files' = WriteFile(files, cur.path)
    /\ outside' = WriteOutside(outside, cur.path)
    /\ uuidMap' = MapAfterFetch(uuidMap, cur, TRUE)
    /\ store' = StoreAppend(store, cur, TRUE)
    /\ progressBar' = BarUpdate(progressBar, TRUE)
    /\ i' = IndexAfterFetch(i, TRUE, total)
    /\ cur' = <<>>
    /\ pc' = "loop"
    /\ UNCHANGED <<book, bookDir, missing, dirs, summaryFile, errArticleCount, totalArticleCount,
                   errArticleInfo, calls, san>>

\* isSuccess once the catch block has run (line 209).
CaughtIsSuccessNotCleared == TRUE
CaughtIsSuccess == FALSE

\* downloadArticle threw, lines 208-215: before fs.writeFile was reached
\* (lines 71-99), or out of fs.writeFile (lines 109-114), which may have
\* created or truncated the article file before it failed.
FetchFail ==
    /\ pc = "fetch"
    /\ \E written \in BOOLEAN :
          /\ files' = IF written THEN WriteFile(files, cur.path) ELSE files
          /\ outside' = IF written THEN WriteOutside(outside, cur.path) ELSE outside
    /\ errArticleCount' = errArticleCount + 1
    /\ errArticleInfo' = Append(errArticleInfo, cur)
    /\ uuidMap' = MapAfterFetch(uuidMap, cur, CaughtIsSuccess)
    /\ store' = StoreAppend(store, cur, CaughtIsSuccess)
    /\ progressBar' = BarUpdate(progressBar, CaughtIsSuccess)
    /\ i' = IndexAfterFetch(i, CaughtIsSuccess, total)
    /\ cur' = <<>>
    /\ pc' = "loop"
    /\ UNCHANGED <<book, bookDir, missing, dirs, summaryFile, totalArticleCount, calls, san>>

\* if (progressBar.curr === total) logger.info('√ 已完成'), lines 241-244.
ReportsCompleteAlways(bar, tot) == TRUE
ReportsComplete(bar, tot) == bar.curr = tot

\* Lines 219-245: the failure report, SUMMARY.md, the completion message.
Finish ==
    /\ pc = "loop"
    /\ i > total
    /\ summaryFile' = TRUE
    /\ calls' = calls \o <<Call("genFile", <<>>, "")>>
                      \o (IF ReportsComplete(progressBar, total)
                          THEN <<Call("logComplete", <<>>, "")>> ELSE <<>>)
    /\ pc' = "done"
    /\ UNCHANGED <<book, bookDir, missing, dirs, files, outside, store, i, uuidMap, cur, progressBar,
                   errArticleCount, totalArticleCount, errArticleInfo, san>>

ResetRun ==
    /\ pc' = "idle"
    /\ i' = 0
    /\ uuidMap' = <<>>
    /\ cur' = <<>>
    /\ progressBar' = NoProgressBar
    /\ errArticleCount' = 0
    /\ totalArticleCount' = 0
    /\ errArticleInfo' = <<>>
    /\ calls' = <<>>

\* How many steps of the pending file-system call a kill can come after:
\* the mkdir(2) steps of fs.mkdir, the one write of fs.writeFile.
PendingSteps ==
    IF pc = "mkdir" THEN Len(MkdirSteps(cur.path)) ELSE IF pc = "fetch" THEN 1 ELSE 0

\* The process is killed while main() runs; the command is invoked again.  Of
\* a pending fs.mkdir the first k directories are made, a pending article
\* write has taken effect or not.
Crash ==
    /\ pc \in {"init", "loop", "mkdir", "fetch"}
    /\ \E k \in 0..PendingSteps :
          /\ dirs' = IF pc = "mkdir" THEN MkdirKilled(dirs, cur.path, k) ELSE dirs
          /\ files' = IF pc = "fetch" /\ k = 1 THEN WriteFile(files, cur.path) ELSE files
          /\ outside' = IF pc = "mkdir" THEN MkdirOutsideKilled(outside, cur.path, k)
                        ELSE IF pc = "fetch" /\ k = 1 THEN WriteOutside(outside, cur.path)
                        ELSE outside
    /\ ResetRun
    /\ UNCHANGED <<book, bookDir, missing, summaryFile, store, san>>

\* The process is killed inside fs.mkdir(bookPath, {recursive: true}), line
\* 123, after some of the missing directories above bookPath were made and
\* before bookPath was; the command is invoked again.
CrashBookDir ==
    /\ pc = "idle"
    /\ ~IsFatal(book)
    /\ ~bookDir
    /\ \E k \in 1..missing :
          /\ outside' = MkdirAbove(outside, missing, k)
          /\ missing' = missing - k
    /\ UNCHANGED <<book, bookDir, dirs, files, summaryFile, store, run, san>>

\* main() has returned or thrown; the command is invoked again.
Exit ==
    /\ pc \in {"done", "complete", "fatal"}
    /\ ResetRun
    /\ UNCHANGED <<book, disk, san>>

Next ==
    \/ MainStart
    \/ InitProgress
    \/ SkipNotString
    \/ SkipDone
    \/ SkipNeither
    \/ BeginDir
    \/ DirDone
    \/ BeginLeaf
    \/ FetchOk
    \/ FetchFail
    \/ Finish
    \/ Crash
    \/ CrashBookDir
    \/ Exit

Spec == Init /\ [][Next]_vars

SpecAnyOrder == InitAnyOrder /\ [][Next]_vars

\* ------------------------------------------------------------- sanitizer
\* Titles of at most MaxLen characters.
RECURSIVE TitlesOfLen(_)
TitlesOfLen(n) ==
    IF n = 0 THEN {<<>>}
    ELSE {Append(t, c) : t \in TitlesOfLen(n - 1), c \in Alphabet}
Titles == UNION {TitlesOfLen(n) : n \in 0..MaxLen}

InitSan ==
    /\ sanIn \in Titles
    /\ sanOut = <<>>
    /\ book = [bookId |-> 0, tocList |-> <<>>]
    /\ EmptyDisk
    /\ FreshRun

\* item.title.replace(dirNameReg, '_').replace(/\s/, '') on the title sanIn.
SanitizeTitle ==
    /\ pc = "idle"
    /\ sanOut' = Sanitize(sanIn)
    /\ pc' = "sanitized"
    /\ UNCHANGED <<book, disk, i, uuidMap, cur, progressBar, errArticleCount,
                   totalArticleCount, errArticleInfo, calls, sanIn>>

NextSan == SanitizeTitle

SpecSan == InitSan /\ [][NextSan]_vars

\* ------------------------------------------------- the uninterrupted pass
\* The uuidMap the loop of lines 149-217 builds from `map` over toc[k..] when
\* nothing interrupts it.
RECURSIVE ResolveFrom(_, _, _)
ResolveFrom(map, k, toc) ==
    IF k > Len(toc) THEN map
    ELSE LET it == toc[k]
         IN  IF ~TypeIsString(it) \/ AlreadyDone(map, it) THEN ResolveFrom(map, k + 1, toc)
             ELSE IF IsDirectory(it)
                  THEN ResolveFrom(MapSet(map, it.uuid, DirProgressItem(map, it)), k + 1, toc)
             ELSE IF HasUrl(it)
                  THEN ResolveFrom(MapSet(map, it.uuid, LeafProgressItem(map, it)), k + 1, toc)
             ELSE ResolveFrom(map, k + 1, toc)

\* The resolution map, directories and files of one uninterrupted run on an
\* empty destination in which every fetch succeeds.
UninterruptedMap == ResolveFrom(<<>>, 1, tocList)
MapEntries(map) == {map[k].value : k \in 1..Len(map)}
RECURSIVE MkdirAll(_, _)
MkdirAll(ds, paths) ==
    IF paths = {} THEN ds
    ELSE LET p == CHOOSE q \in paths : TRUE IN MkdirAll(MkdirRecursive(ds, p), paths \ {p})
UninterruptedDirs ==
    MkdirAll({}, {e.path : e \in {x \in MapEntries(UninterruptedMap) : IsDirectory(x.toc)}})
UninterruptedFiles ==
    UNION {WriteFile({}, e.path) : e \in {x \in MapEntries(UninterruptedMap) : ~IsDirectory(x.toc)}}

\* uuids of the nodes the store holds a record for.
RecordIds(st) == {st.records[k].entry.toc.uuid : k \in 1..Len(st.records)}
\* The calls of one kind the run has issued.
CallsOf(op) == {k \in 1..Len(calls) : calls[k].op = op}

IsLeaf(it) == TypeIsString(it) /\ ~IsDirectory(it) /\ HasUrl(it)

\* ------------------------------------------------------------------ claims

\* C1. Resume idempotence: whatever prefixes of earlier runs were interrupted,
\* a run that reaches its end holds the resolution map of one uninterrupted
\* run (same ids, same path, pathTitleList and pathIdList), the destination
\* holds exactly the directories of the uninterrupted run and never a file
\* the uninterrupted run would not write, and once no fetch is left failed
\* (the run ended without a failure, or the store is complete) it holds
\* exactly the uninterrupted run's files.
C1_ResumeIdempotence ==
    /\ dirs \subseteq UninterruptedDirs
    /\ files \subseteq UninterruptedFiles
    /\ pc = "done" =>
          /\ MapEntries(uuidMap) = MapEntries(UninterruptedMap)
          /\ MapKeys(uuidMap) = MapKeys(UninterruptedMap)
          /\ Len(uuidMap) = Len(UninterruptedMap)
          /\ dirs = UninterruptedDirs
          /\ errArticleCount = 0 => files = UninterruptedFiles
    /\ pc = "complete" => dirs = UninterruptedDirs /\ files = UninterruptedFiles

\* A resumed run has reached its end after fetching, below a directory that
\* an earlier run recorded, a leaf that run had not completed.
C1_Witness ==
    /\ pc = "done"
    /\ progressBar.isDownloadInterrupted
    /\ \E k \in CallsOf("fetch") :
          /\ Len(MapGet(uuidMap, calls[k].uuid).pathIdList) >= 2
          /\ \A m \in CallsOf("mkdir") : calls[m].uuid # tocList[TocIndexOf(calls[k].uuid)].parent_uuid

\* A step that issues a fetch or a mkdir issues it for a node without a record.
C2_IssuedOnlyForUnrecorded ==
    calls' # calls /\ Len(calls') > 0 /\ calls'[Len(calls')].op \in {"fetch", "mkdir"}
        => calls'[Len(calls')].uuid \notin RecordIds(store)
\* No node has two records, no run issues two calls for one node.
C2_NoDuplicates ==
    /\ \A a, b \in 1..Len(store.records) :
          store.records[a].entry.toc.uuid = store.records[b].entry.toc.uuid => a = b
    /\ \A a, b \in CallsOf("fetch") \cup {k \in CallsOf("mkdir") : calls[k].uuid # ""} :
          calls[a].uuid = calls[b].uuid => a = b
\* C2. A node that has a success record is never fetched and never has its
\* directory requested again: a fetch or a node's mkdir is only ever issued
\* for a node without a record; no run issues two calls for one node; the
\* store never holds two records for one node id.
C2_NeverAgain == [][C2_IssuedOnlyForUnrecorded]_vars /\ []C2_NoDuplicates

\* The scenario of the claim: [A directory, B leaf of A], the store held A's
\* record alone when the run started; the run issued one fetch, for B, and
\* no directory creation for A.
C2_Witness ==
    /\ pc = "done"
    /\ progressBar.isDownloadInterrupted
    /\ total = 2
    /\ IsDirectory(tocList[1]) /\ IsLeaf(tocList[2]) /\ tocList[2].parent_uuid = "A"
    /\ calls = <<Call("mkdir", <<>>, ""), Call("fetch", MapGet(uuidMap, "B").path, "B"),
                 Call("genFile", <<>>, ""), Call("logComplete", <<>>, "")>>

\* The step in which downloadArticle's error is caught.
C3_FailStep ==
    pc = "fetch" /\ pc' = "loop" /\ errArticleCount' # errArticleCount
        => /\ store' = store
           /\ errArticleInfo' = Append(errArticleInfo, cur)
\* No reported leaf has a record; an unrecorded leaf is not skipped.
C3_Unrecorded ==
    /\ \A k \in 1..Len(errArticleInfo) : errArticleInfo[k].toc.uuid \notin RecordIds(store)
    /\ Len(errArticleInfo) = errArticleCount
    /\ InLoop /\ IsLeaf(item) /\ item.uuid \notin RecordIds(store) => ~AlreadyDone(uuidMap, item)
\* C3. A failed fetch appends no record for the leaf, puts the leaf's entry
\* on the run's failure report, and leaves the leaf retryable: no leaf on a
\* failure report has a record, and whenever the loop reaches a leaf without
\* a record the leaf is not skipped (its fetch is the next call).
C3_FailedLeafRetryable == [][C3_FailStep]_vars /\ []C3_Unrecorded

\* A leaf is being fetched although a node listed after it already has a
\* record: its fetch failed in an earlier run and is invoked again.
C3_Witness ==
    /\ pc = "fetch"
    /\ \E u \in RecordIds(store) : TocIndexOf(u) > i

\* C4 as stated. No-op on completion: a run on a complete store issues no
\* fetch and no directory-creation call and returns an empty failure report.
C4_AsStated ==
    pc = "complete" =>
        /\ CallsOf("fetch") = {}
        /\ CallsOf("mkdir") = {}
        /\ errArticleInfo = <<>>

\* A step of a run that starts on a complete store.
C4_Step ==
    pc \in {"idle", "init"} /\ book.bookId # 0 /\ total > 0 /\ store.completedCount = total
        => /\ disk' = disk
           /\ pc' \in {"idle", "init", "complete"}
           /\ \A k \in 1..Len(calls') :
                 /\ calls'[k].op # "fetch"
                 /\ calls'[k].op = "mkdir" => calls'[k].path = <<>> /\ calls'[k].uuid = ""
           /\ errArticleInfo' = <<>>
           /\ errArticleCount' = 0
\* The run has returned at line 131.
C4_Returned ==
    pc = "complete" =>
        /\ calls = <<Call("mkdir", <<>>, ""), Call("logComplete", <<>>, "")>>
        /\ bookDir /\ store.exists /\ store.completedCount = total
\* C4 as amended. A run on a complete store fetches nothing, requests no
\* node's directory, changes neither the store nor the file tree and returns
\* an empty failure report; its one directory-creation call is the
\* idempotent creation of the book directory, which already exists.
C4_NoOpOnCompletion == [][C4_Step]_vars /\ []C4_Returned

\* A run has returned early on a complete store of three records.
C4_Witness ==
    /\ pc = "complete"
    /\ Len(store.records) = 3

\* C5. Failure isolation: a run that had fetches fail still reaches its end
\* with SUMMARY.md generated, with every directory-like node recorded and
\* every leaf either recorded or on the failure report, and with every node
\* resolved to the entry it has when every fetch succeeds.
C5_FailureIsolation ==
    pc = "done" =>
        /\ CallsOf("genFile") # {}
        /\ summaryFile
        /\ i = total + 1
        /\ \A k \in 1..total :
              LET it == tocList[k]
              IN  /\ TypeIsString(it) /\ IsDirectory(it) =>
                        it.uuid \in RecordIds(store) /\ MapHas(uuidMap, it.uuid)
                  /\ IsLeaf(it) =>
                        /\ MapHas(uuidMap, it.uuid)
                        /\ \/ it.uuid \in RecordIds(store)
                           \/ \E m \in 1..Len(errArticleInfo) : errArticleInfo[m].toc.uuid = it.uuid
        /\ \A k \in 1..Len(uuidMap) :
              uuidMap[k].value = MapGet(UninterruptedMap, uuidMap[k].key)

\* A run has ended in which a fetch failed and a later node was still
\* processed: a call follows the failed leaf's fetch.
C5_Witness ==
    /\ pc = "done"
    /\ errArticleCount >= 1
    /\ \E k \in CallsOf("fetch"), m \in CallsOf("fetch") \cup CallsOf("mkdir") :
          /\ calls[k].uuid = errArticleInfo[1].toc.uuid
          /\ m > k

\* C6. A book without an id or with an empty table of contents makes main
\* throw before anything is touched: no directory, no file, no progress
\* store, no call.
C6_FatalBeforeMutation ==
    book.bookId = 0 \/ Len(book.tocList) = 0 =>
        /\ pc \in {"idle", "fatal"}
        /\ EmptyDisk
        /\ calls = <<>>
        /\ ~progressBar.initialised

\* main has thrown for a book that has an id and an empty table of contents.
C6_Witness ==
    /\ pc = "fatal"
    /\ book.bookId # 0
    /\ total = 0

\* C7. completedCount is the number of success records, the bar's curr is
\* that count, and the run logs completion only when curr = total; a run in
\* which a fetch failed never logs it.
C7_HonestCompletion ==
    /\ store.completedCount = SuccessCount(store.records)
    /\ progressBar.initialised => progressBar.curr = store.completedCount
    /\ CallsOf("logComplete") # {} => store.completedCount = total
    /\ errArticleCount > 0 => CallsOf("logComplete") = {}

\* A run has ended in which every node was processed and one fetch failed.
C7_Witness ==
    /\ pc = "done"
    /\ errArticleCount = 1
    /\ progressBar.curr + 1 = total

\* The node's own path segment.
OwnSegment(it) == IF IsDirectory(it) THEN Sanitize(it.title) ELSE MdFileName(Sanitize(it.title))
\* The table of contents [A directory 'Intro', B leaf 'Hello' of A].
ExampleToc ==
    << [type |-> "TITLE", uuid |-> "A", parent_uuid |-> "", child_uuid |-> "B",
        title |-> <<"I", "n", "t", "r", "o">>, url |-> ""],
       [type |-> "DOC", uuid |-> "B", parent_uuid |-> "A", child_uuid |-> "",
        title |-> <<"H", "e", "l", "l", "o">>, url |-> "u"] >>

\* C8. On a table of contents that lists every parent first and in which
\* every node with children is directory-like (child_uuid names its first
\* child), every resolved node's pathTitleList and pathIdList are its resolved
\* parent's, extended with its own sanitized title ('.md' appended for a
\* leaf) and its own uuid; a node whose parent is not resolved has its own
\* segment only; path is the '/'-join of pathTitleList.  For [A directory
\* 'Intro', B leaf 'Hello' of A]: A is 'Intro', B is 'Intro/Hello.md', and
\* once B is recorded the store has 2 success records, completedCount 2 = total.
C8_PathsExtendParent ==
    /\ \A k \in 1..Len(uuidMap) :
          LET e == uuidMap[k].value
          IN  /\ e.path = Join(e.pathTitleList)
              /\ IF MapHas(uuidMap, e.toc.parent_uuid)
                 THEN /\ e.pathTitleList =
                            Append(MapGet(uuidMap, e.toc.parent_uuid).pathTitleList, OwnSegment(e.toc))
                      /\ e.pathIdList =
                            Append(MapGet(uuidMap, e.toc.parent_uuid).pathIdList, e.toc.uuid)
                 ELSE /\ e.pathTitleList = <<OwnSegment(e.toc)>>
                      /\ e.pathIdList = <<e.toc.uuid>>
    /\ tocList = ExampleToc =>
          /\ MapHas(uuidMap, "A") => MapGet(uuidMap, "A").path = <<"I", "n", "t", "r", "o">>
          /\ MapHas(uuidMap, "B") =>
                MapGet(uuidMap, "B").path =
                    <<"I", "n", "t", "r", "o", "/", "H", "e", "l", "l", "o", ".", "m", "d">>
          /\ "B" \in RecordIds(store) =>
                /\ Len(store.records) = 2
                /\ \A k \in 1..2 : store.records[k].success
                /\ store.completedCount = 2
                /\ total = 2

\* The example has run to its end with B fetched.
C8_Witness ==
    /\ tocList = ExampleToc
    /\ pc = "done"
    /\ MapHas(uuidMap, "B")
    /\ "B" \in RecordIds(store)
    /\ ~progressBar.isDownloadInterrupted

\* C9. In a table of contents listed in any order, a node whose parent is not
\* in the resolution map when the node is processed (no earlier entry of the
\* map, which keeps insertion order, has the parent's uuid) is resolved as
\* root-level: its pathTitleList and pathIdList hold its own segment only.
\* The pass does not fail: a run that reaches its end has gone over the whole
\* list and resolved every directory-like node and every leaf.
C9_OrphanIsRootLevel ==
    /\ \A k \in 1..Len(uuidMap) :
          LET e == uuidMap[k].value
          IN  (\A j \in 1..(k - 1) : uuidMap[j].key # e.toc.parent_uuid) =>
                 /\ e.pathTitleList = <<OwnSegment(e.toc)>>
                 /\ e.pathIdList = <<e.toc.uuid>>
                 /\ e.path = OwnSegment(e.toc)
    /\ pc # "fatal"
    /\ pc = "done" =>
          /\ i = total + 1
          /\ \A k \in 1..total :
                TypeIsString(tocList[k]) /\ (IsDirectory(tocList[k]) \/ HasUrl(tocList[k]))
                    => MapHas(uuidMap, tocList[k].uuid)

\* A run has ended in which a child was listed and resolved before its
\* parent: the child is root-level although its parent is in the map.
C9_Witness ==
    /\ pc = "done"
    /\ \E k \in 1..Len(uuidMap) :
          /\ uuidMap[k].value.toc.parent_uuid # ""
          /\ \E j \in (k + 1)..Len(uuidMap) : uuidMap[j].key = uuidMap[k].value.toc.parent_uuid
          /\ uuidMap[k].value.pathIdList = <<uuidMap[k].key>>

\* What title.replace(dirNameReg, '_') leaves of one character.
Replaced(c) == IF c \in DirNameChars THEN "_" ELSE c

\* C10. The sanitizer's output holds none of \ / : * ? " < > | newline
\* carriage-return: each of them is replaced by one underscore; then the
\* first whitespace character left, if any, is removed; every other
\* character is kept, in order.
C10_SanitizerOutput ==
    pc = "sanitized" =>
        /\ \A k \in 1..Len(sanOut) : sanOut[k] \notin DirNameChars
        /\ LET ws == {k \in 1..Len(sanIn) : sanIn[k] \in WhiteSpace \ DirNameChars}
           IN  IF ws = {}
               THEN /\ Len(sanOut) = Len(sanIn)
                    /\ \A k \in 1..Len(sanIn) : sanOut[k] = Replaced(sanIn[k])
               ELSE LET w == CHOOSE k \in ws : \A j \in ws : k <= j
                    IN  /\ Len(sanOut) = Len(sanIn) - 1
                        /\ \A k \in 1..(w - 1) : sanOut[k] = Replaced(sanIn[k])
                        /\ \A k \in w..Len(sanOut) : sanOut[k] = Replaced(sanIn[k + 1])

\* A title with two illegal characters around a blank has been sanitized.
C10_Witness ==
    /\ pc = "sanitized"
    /\ sanIn = <<"/", " ", "\n">>
    /\ sanOut = <<"_", "_">>

\* Number of records this run has appended so far: the nodes it has issued a
\* call for, less the failed fetches and the node still in flight.
AppendedThisRun ==
    Cardinality(CallsOf("fetch") \cup {k \in CallsOf("mkdir") : calls[k].uuid # ""})
        - errArticleCount - (IF pc \in {"mkdir", "fetch"} THEN 1 ELSE 0)

\* ------------------------------------------------- every shape of an entry
\* Entries in which the type and the url vary independently: a section with
\* a url and an entry without a type that has a url are among them.
AllShapes == { [type |-> "TITLE", url |-> ""], [type |-> "TITLE", url |-> "u"],
               [type |-> "DOC", url |-> "u"], [type |-> "DOC", url |-> ""],
               [type |-> NotAString, url |-> "u"] }

InitAllShapes ==
    /\ \E n \in 1..MaxNodes :
         \E shape \in [1..n -> AllShapes], par \in Forests(n) :
            book = [bookId |-> 1, tocList |-> TocList(n, shape, par)]
    /\ EmptyDisk
    /\ FreshRun
    /\ sanIn = <<>>
    /\ sanOut = <<>>

SpecAllShapes == InitAllShapes /\ [][Next]_vars

\* uuids of the records the store held when this run started: the nodes the
\* run skips.
PriorIds ==
    {store.records[k].entry.toc.uuid : k \in 1..(Len(store.records) - AppendedThisRun)}

\* The calls of one kind the run has issued for a node.
CallsFor(op, uuid) == {c \in CallsOf(op) : calls[c].uuid = uuid}

\* C12. At the end of a run every node it did not skip was handled in one
\* of three ways: a node of a known kind that is a section or has children
\* got one directory-creation request, one success record and no fetch; a
\* node of a known kind that is neither and has a url got exactly one fetch
\* and no directory request; any other node (no url, or an unknown kind) got
\* no call, no record and no entry in the resolution map.  A skipped node
\* got no call.
C12_OneOfThreeWays ==
    pc = "done" =>
        \A k \in 1..total :
            LET it == tocList[k]
                known == it.type \in {"TITLE", "DOC"}
                dirLike == it.type = "TITLE" \/ it.child_uuid # ""
            IN  IF it.uuid \in PriorIds
                THEN CallsFor("mkdir", it.uuid) = {} /\ CallsFor("fetch", it.uuid) = {}
                ELSE IF known /\ dirLike
                THEN /\ Cardinality(CallsFor("mkdir", it.uuid)) = 1
                     /\ CallsFor("fetch", it.uuid) = {}
                     /\ \E r \in 1..Len(store.records) :
                           store.records[r].entry.toc.uuid = it.uuid /\ store.records[r].success
                ELSE IF known /\ it.url # ""
                THEN /\ Cardinality(CallsFor("fetch", it.uuid)) = 1
                     /\ CallsFor("mkdir", it.uuid) = {}
                ELSE /\ CallsFor("mkdir", it.uuid) = {}
                     /\ CallsFor("fetch", it.uuid) = {}
                     /\ it.uuid \notin RecordIds(store)
                     /\ ~MapHas(uuidMap, it.uuid)

\* A run has ended on [an entry without a type that has a url and a child, a
\* document with a url and a child, a document with a url]: the first got
\* nothing, the second a directory, the third a fetch.
C12_Witness ==
    /\ pc = "done"
    /\ total = 3
    /\ tocList[1].type = NotAString /\ tocList[1].url = "u" /\ tocList[1].child_uuid = "B"
    /\ tocList[2].type = "DOC" /\ tocList[2].url = "u" /\ tocList[2].child_uuid = "C"
    /\ tocList[3].type = "DOC" /\ tocList[3].url = "u"
    /\ calls = <<Call("mkdir", <<>>, ""), Call("mkdir", MapGet(uuidMap, "B").path, "B"),
                 Call("fetch", MapGet(uuidMap, "C").path, "C"), Call("genFile", <<>>, "")>>

\* ------------------------------------------- the ancestor walk, step by step
\* Most iterations of the while loop of lines 160-168 a walk is followed for.
MaxWalk == 5

\* A table of contents whose parent_uuid fields are arbitrary: an entry may
\* name itself, a later entry, or an entry of a cycle as its parent.
InitAnyParents ==
    /\ \E n \in 1..MaxNodes :
         \E shape \in [1..n -> Shapes], par \in [1..n -> 0..n] :
            book = [bookId |-> 1, tocList |-> TocList(n, shape, par)]
    /\ EmptyDisk
    /\ FreshRun
    /\ sanIn = <<>>
    /\ sanOut = <<>>

\* Lines 156-159: the directory branch is entered; tempItem = item and the
\* two lists are empty.
WalkBegin ==
    /\ InLoop
    /\ TypeIsString(item)
    /\ ~AlreadyDone(uuidMap, item)
    /\ IsDirectory(item)
    /\ cur' = [tempItem |-> item, pathTitleList |-> <<>>, pathIdList |-> <<>>, toc |-> item]
    /\ pc' = "walk"
    /\ UNCHANGED <<book, disk, i, uuidMap, progressBar, errArticleCount, totalArticleCount,
                   errArticleInfo, calls, san>>

\* The two unshifts of lines 161-162.
Unshifted(walk) ==
    [walk EXCEPT !.pathTitleList = <<Sanitize(walk.tempItem.title)>> \o @,
                 !.pathIdList = <<walk.tempItem.uuid>> \o @]

\* One iteration that finds the parent in uuidMap (lines 161-164).
WalkStep ==
    /\ pc = "walk"
    /\ Len(cur.pathIdList) < MaxWalk
    /\ MapHas(uuidMap, cur.tempItem.parent_uuid)
    /\ cur' = [Unshifted(cur) EXCEPT !.tempItem = MapGet(uuidMap, cur.tempItem.parent_uuid).toc]
    /\ UNCHANGED <<book, disk, pc, i, uuidMap, progressBar, errArticleCount, totalArticleCount,
                   errArticleInfo, calls, san>>

\* The iteration that finds no parent (lines 161-166), the progressItem and
\* the call of fs.mkdir (lines 169-175).
WalkEnd ==
    /\ pc = "walk"
    /\ ~MapHas(uuidMap, cur.tempItem.parent_uuid)
    /\ LET walk == Unshifted(cur)
       IN  cur' = [ path          |-> Join(walk.pathTitleList),
                    pathTitleList |-> walk.pathTitleList,
                    pathIdList    |-> walk.pathIdList,
                    toc           |-> walk.toc ]
    /\ calls' = Append(calls, Call("mkdir", cur'.path, cur.toc.uuid))
    /\ pc' = "mkdir"
    /\ UNCHANGED <<book, disk, i, uuidMap, progressBar, errArticleCount, totalArticleCount,
                   errArticleInfo, san>>

\* The process is killed during the walk.
CrashWalk ==
    /\ pc = "walk"
    /\ ResetRun
    /\ UNCHANGED <<book, disk, san>>

NextWalk ==
    \/ MainStart
    \/ InitProgress
    \/ SkipNotString
    \/ SkipDone
    \/ SkipNeither
    \/ WalkBegin
    \/ WalkStep
    \/ WalkEnd
    \/ CrashWalk
    \/ DirDone
    \/ BeginLeaf
    \/ FetchOk
    \/ FetchFail
    \/ Finish
    \/ Crash
    \/ CrashBookDir
    \/ Exit

SpecWalk == InitAnyParents /\ [][NextWalk]_vars

\* C13. The ancestor walk of a directory-like node stops after finitely
\* many parent lookups, whatever the parent references are: uuidMap does not
\* change during a walk, so a walk that stops never visits an entry twice,
\* and a walk that is still going has done at most as many iterations as
\* the map has entries.
C13_WalkTerminates ==
    pc = "walk" => Len(cur.pathIdList) <= Len(uuidMap)


\* C14. At the end of every run that reaches index generation, a resumed
\* run that retries an earlier failed leaf included, uuidMap holds each
\* resolved node once and iterates in the node order of tocList.
C14_MapInNodeOrder ==
    pc = "done" =>
        \A k, l \in 1..Len(uuidMap) :
            k < l => TocIndexOf(uuidMap[k].key) < TocIndexOf(uuidMap[l].key)


\* C15. The map handed to the SummaryEmitter covers only what succeeded:
\* every entry is a directory that was created or a leaf whose fetch
\* succeeded, in this or an earlier run, so its directory or file is in
\* the destination tree; a leaf whose fetch failed in this run has no entry.
C15_IndexOnlySucceeded ==
    pc = "done" =>
        /\ \A k \in 1..Len(uuidMap) :
              LET entry == uuidMap[k].value
              IN  IF IsDirectory(entry.toc) THEN entry.path \in dirs ELSE entry.path \in files
        /\ \A k \in 1..Len(errArticleInfo) : ~MapHas(uuidMap, errArticleInfo[k].toc.uuid)


\* C16. Eventual completion, in the form a finite run can refute: a run
\* that reaches its end with no failed fetch has resolved every node that
\* can be resolved, so no later run appends a record; the ProgressStore is
\* then complete (completedCount = total, the length of tocList), also when
\* tocList holds nodes the classifier ignores.
C16_CompleteAfterCleanRun ==
    (pc = "done" /\ errArticleCount = 0) => store.completedCount = total


\* The savePath argument of downloadArticle, below bookPath (line 202).
SavePath == PreItem(uuidMap, cur.toc).path

\* C17. Whenever downloadArticle is invoked for a leaf, the containing
\* directory passed to it (bookPath joined with the parent's resolved path)
\* exists already, created in this run or in an earlier run whose record was
\* replayed.
C17_DirBeforeFetch ==
    pc = "fetch" => bookDir /\ (SavePath = <<>> \/ SavePath \in dirs)

\* A resumed run fetches a leaf below a directory that an earlier run
\* created: this run issued no mkdir for the parent.
C17_Witness ==
    /\ pc = "fetch"
    /\ SavePath # <<>>
    /\ CallsFor("mkdir", cur.toc.parent_uuid) = {}
    /\ cur.toc.parent_uuid \in PriorIds


\* C18. For every order of tocList, the two resolution methods agree: the
\* lists a directory-like node gets from the ancestor walk are its parent's
\* stored pathTitleList and pathIdList extended by its own segment, so two
\* entries with the same resolved parent have the same prefix.
C18_WalkAgreesWithStored ==
    /\ (pc = "mkdir" /\ MapHas(uuidMap, cur.toc.parent_uuid)) =>
          LET parent == MapGet(uuidMap, cur.toc.parent_uuid)
          IN  /\ cur.pathTitleList = Append(parent.pathTitleList, Sanitize(cur.toc.title))
              /\ cur.pathIdList = Append(parent.pathIdList, cur.toc.uuid)
    /\ \A k, l \in 1..Len(uuidMap) :
          LET d == uuidMap[k].value
              f == uuidMap[l].value
          IN  (d.toc.parent_uuid = f.toc.parent_uuid /\ MapHas(uuidMap, d.toc.parent_uuid)) =>
                 SubSeq(d.pathIdList, 1, Len(d.pathIdList) - 1)
                     = SubSeq(f.pathIdList, 1, Len(f.pathIdList) - 1)


\* ------------------------------------------------ titles that are not trusted
\* Most nodes of a table of contents whose titles are chosen freely.
MaxTitled == 2
\* item.title as the server sends it: 'a/b', 'a:b', '..', ' '.
UntrustedTitles == { <<"a", "/", "b">>, <<"a", ":", "b">>, <<".", ".">>, <<" ">> }

\* jsonData.book.toc with the given titles.
TitledTocList(n, shape, par, title) ==
    [k \in 1..n |-> [TocItem(k, n, shape, par) EXCEPT !.title = title[k]]]

InitTitles ==
    /\ \E n \in 1..MaxTitled :
         \E shape \in [1..n -> Shapes], par \in Forests(n), title \in [1..n -> UntrustedTitles] :
            book = [bookId |-> 1, tocList |-> TitledTocList(n, shape, par, title)]
    /\ EmptyDisk
    /\ FreshRun
    /\ sanIn = <<>>
    /\ sanOut = <<>>

SpecTitles == InitTitles /\ [][Next]_vars

\* C19. Distinct nodes never resolve to the same path: two entries of
\* uuidMap with different uuids have different path values, also when the
\* titles are equal or become equal by sanitization.
C19_DistinctPaths ==
    \A k, l \in 1..Len(uuidMap) :
        uuidMap[k].key # uuidMap[l].key => uuidMap[k].value.path # uuidMap[l].value.path

\* Number of '/'-separated components of a path.
Components(path) == 1 + Cardinality({k \in 1..Len(path) : path[k] = "/"})

\* C20. Every resolved path stays inside the book directory: each element
\* of pathTitleList is one non-empty path component that is neither '.' nor
\* '..', and pathTitleList and pathIdList have as many elements as path has
\* '/'-separated components; nothing is created or written outside the
\* book directory but the directories above it that fs.mkdir(bookPath) makes.
C20_PathInsideRoot ==
    /\ \A k \in 1..Len(uuidMap) :
          LET entry == uuidMap[k].value
          IN  /\ \A s \in 1..Len(entry.pathTitleList) :
                    LET seg == entry.pathTitleList[s]
                    IN  /\ seg # <<>>
                        /\ seg # <<".">>
                        /\ seg # <<".", ".">>
                        /\ \A c \in 1..Len(seg) : seg[c] # "/"
              /\ Len(entry.pathTitleList) = Components(entry.path)
              /\ Len(entry.pathIdList) = Components(entry.path)
    /\ \A o \in outside :
          \A c \in 1..Len(SplitPath(o)) : SplitPath(o)[c] = <<".", ".">>

\* ------------------------------------------- updateProgress without await
\* main() calls progressBar.updateProgress(progressItem, isSuccess) without
\* await (lines 177, 215) and waits for the bar only after the loop
\* (completePromise, line 220).  Here the append the call starts is not taken
\* as done within the call: the bar counts at once, the record is in flight
\* until its write lands.
BarUpdateUnawaited(bar, progressItem, isSuccess) ==
    IF isSuccess
    THEN [BarUpdate(bar, isSuccess) EXCEPT !.inFlight = Append(@, progressItem)]
    ELSE bar

\* Lines 175-177 with the append of line 177 left in flight.
DirDoneUnawaited ==
    /\ pc = "mkdir"
    /\ dirs' = MkdirRecursive(dirs, cur.path)
    /\ outside' = MkdirOutside(outside, cur.path)
    /\ uuidMap' = MapSet(uuidMap, cur.toc.uuid, cur)
    /\ progressBar' = BarUpdateUnawaited(progressBar, cur, TRUE)
    /\ i' = NextIndex(i)
    /\ cur' = <<>>
    /\ pc' = "loop"
    /\ UNCHANGED <<book, bookDir, missing, files, summaryFile, store, errArticleCount,
                   totalArticleCount, errArticleInfo, calls, san>>

\* Lines 198-215, downloadArticle returned true, with the append of line 215
\* left in flight.
FetchOkUnawaited ==
    /\ pc = "fetch"
    /\ files' = WriteFile(files, cur.path)
    /\ outside' = WriteOutside(outside, cur.path)
    /\ uuidMap' = MapAfterFetch(uuidMap, cur, TRUE)
    /\ progressBar' = BarUpdateUnawaited(progressBar, cur, TRUE)
    /\ i' = IndexAfterFetch(i, TRUE, total)
    /\ cur' = <<>>
    /\ pc' = "loop"
    /\ UNCHANGED <<book, bookDir, missing, dirs, summaryFile, store, errArticleCount,
                   totalArticleCount, errArticleInfo, calls, san>>

\* The oldest write in flight lands: its record is in the store, whole.  It
\* can land whenever main() is at an await (lines 175, 198, 220) or has
\* returned with writes still pending.
AppendLands ==
    /\ pc \in {"loop", "mkdir", "fetch", "done"}
    /\ progressBar.inFlight # <<>>
    /\ store' = StoreAppend(store, Head(progressBar.inFlight), TRUE)
    /\ progressBar' = [progressBar EXCEPT !.inFlight = Tail(@)]
    /\ UNCHANGED <<book, bookDir, missing, dirs, files, outside, summaryFile, pc, i, uuidMap, cur,
                   errArticleCount, totalArticleCount, errArticleInfo, calls, san>>

\* The process is killed after main() has returned and before the writes still
\* in flight have landed: they are lost.
CrashDraining ==
    /\ pc = "done"
    /\ progressBar.inFlight # <<>>
    /\ ResetRun
    /\ UNCHANGED <<book, disk, san>>

\* The process ends once main() has returned or thrown and no write is
\* pending; the command is invoked again.
ExitDrained ==
    /\ progressBar.inFlight = <<>>
    /\ Exit

NextUnawaited ==
    \/ MainStart
    \/ InitProgress
    \/ SkipNotString
    \/ SkipDone
    \/ SkipNeither
    \/ BeginDir
    \/ DirDoneUnawaited
    \/ BeginLeaf
    \/ FetchOkUnawaited
    \/ FetchFail
    \/ AppendLands
    \/ Finish
    \/ Crash
    \/ CrashBookDir
    \/ CrashDraining
    \/ ExitDrained

SpecUnawaited == Init /\ [][NextUnawaited]_vars

====
